---- MODULE Spec2Model ----
(***************************************************************************)
(* Drawer Finder (drawer_finder.py): a Streamlit inventory tracker with a  *)
(* JSON credential store (users.json), a JSON inventory list               *)
(* (drawer_data.json) and one st.session_state per connected browser       *)
(* session.                                                                *)
(*                                                                         *)
(* Four specifications share the variables:                                *)
(*   SpecStore  the store functions called one after the other             *)
(*              (load_users, save_user, load_data, save_item, delete_item) *)
(*   Spec       the application: sessions running the script, their file   *)
(*              reads and writes interleaved, with every account the       *)
(*              Admin Panel can create                                     *)
(*   SpecRace   the application with the administrator account in every    *)
(*              session and a longer inventory                             *)
(*   SpecFind   the Find Item filter over every bounded inventory list     *)
(***************************************************************************)
EXTENDS Integers, Sequences, FiniteSets, TLC

VARIABLES
    userFile,       \* users.json
    dataFile,       \* drawer_data.json
    call,           \* SpecStore: the last store call
    session_state,  \* st.session_state of each session
    pc,             \* where each session's script run stands
    local,          \* the local variables of a run that is under way
    view,           \* the list each session's View All page shows
    sel,            \* the index chosen in its "Select item to delete" box
    last            \* what each session's last finished run did and showed

vars == <<userFile, dataFile, call, session_state, pc, local, view, sel, last>>

appVars == <<session_state, pc, local, view, sel, last>>

(***************************************************************************)
(* Bounds of the model.                                                    *)
(***************************************************************************)
\* longest inventory list the store calls build
MaxItems == 3
\* delete_item is called with every index in -MaxIndex .. MaxIndex
MaxIndex == 4
\* number of browser sessions
NumSessions == 2
\* longest inventory list of the racing sessions
MaxAppItems == 2
\* longest inventory list of the sessions creating users
MaxAuthItems == 1
\* the Find Item page is run on lists of up to MaxFindLen records, with item
\* names and search terms of up to MaxStrLen and notes of up to MaxNotesLen
\* characters
MaxFindLen == 2
MaxStrLen == 2
MaxNotesLen == 1

(***************************************************************************)
(* Configuration, lines 9-13.                                              *)
(***************************************************************************)
ADMIN_USER == "admin"
DEFAULT_ADMIN_PASS == "admin123"

\* Python's None, and a value for "no such thing" in the bookkeeping
None == "None"

(***************************************************************************)
(* Strings that the program takes apart (item names, notes, search terms)  *)
(* are sequences of characters; str.lower() maps each character.           *)
(***************************************************************************)
Chars == {"a", "b", "B"}

LowerChar(c) == IF c = "B" THEN "b" ELSE IF c = "A" THEN "a" ELSE c

Lower(s) == [i \in 1..Len(s) |-> LowerChar(s[i])]

\* Python's `sub in s` for strings: sub occurs at some offset of s
\* (the empty string occurs in every string)
StrIn(sub, s) ==
    \E off \in 0..(Len(s) - Len(sub)) :
        \A k \in 1..Len(sub) : s[off + k] = sub[k]

(***************************************************************************)
(* Authentication utilities.                                               *)
(***************************************************************************)
Passwords == {"admin123", "pw"}

\* hashlib.sha256(password).hexdigest(), tabulated for the model's passwords
make_hashes(password) ==
    CASE password = "admin123" ->
           "240be518fabd2724ddb6f04eeb1da5967448d7e831c08c8fa822809f74c720a9"
      [] password = "pw" ->
           "30c952fab122c3f9759f02a6d95c3758b246b4fee239957b2d4fee46e26170c4"
      [] password = "" ->
           "e3b0c44298fc1c149afbf4c8996fb92427ae41e4649b934ca495991b7852b855"

check_hashes(password, hashed_text) == make_hashes(password) = hashed_text

\* A file is absent, or holds the value json.dump wrote last.
AbsentUsers == [exists |-> FALSE, content |-> <<>>]
AbsentData == [exists |-> FALSE, content |-> <<>>]

\* the default admin stored with its password as typed
default_users_Plain ==
    ADMIN_USER :> [name |-> "sysAdmin",
                   password |-> DEFAULT_ADMIN_PASS,
                   role |-> "admin"]

\* default_users of load_users, lines 31-37
default_users ==
    ADMIN_USER :> [name |-> "sysAdmin",
                   password |-> make_hashes(DEFAULT_ADMIN_PASS),
                   role |-> "admin"]

\* load_users: the mapping returned, and the file it leaves
load_users(file) ==
    IF ~file.exists
    THEN [file |-> [exists |-> TRUE, content |-> default_users],
          users |-> default_users]
    ELSE [file |-> file, users |-> file.content]

\* save_user without the `username in users` check: the record is overwritten
save_user_write_Overwrite(file, users, username, name, password, role) ==
    [file |-> [exists |-> TRUE,
               content |-> [u \in DOMAIN users \cup {username} |->
                              IF u = username
                              THEN [name |-> name,
                                    password |-> make_hashes(password),
                                    role |-> role]
                              ELSE users[u]]],
     ret |-> <<TRUE, "User created successfully.">>]

\* the part of save_user after users = load_users(): the check, the new
\* record, the dump; `users` is the mapping loaded, `file` the file as it is
\* when the dump happens
save_user_write(file, users, username, name, password, role) ==
    IF username \in DOMAIN users
    THEN [file |-> file, ret |-> <<FALSE, "Username already exists.">>]
    ELSE [file |-> [exists |-> TRUE,
                    content |-> (username :> [name |-> name,
                                              password |-> make_hashes(password),
                                              role |-> role]) @@ users],
          ret |-> <<TRUE, "User created successfully.">>]

\* save_user run without interruption
save_user(file, username, name, password, role) ==
    LET l == load_users(file)
    IN  save_user_write(l.file, l.users, username, name, password, role)

(***************************************************************************)
(* Database utilities.                                                     *)
(***************************************************************************)
load_data(file) == IF ~file.exists THEN <<>> ELSE file.content

\* the entry save_item builds; timestamp is str(datetime.now())
Entry(item_name, drawer_number, notes, user, now) ==
    [item |-> item_name, drawer |-> drawer_number, notes |-> notes,
     added_by |-> user, timestamp |-> now]

\* data.insert(0, entry) in place of data.append(entry)
save_item_write_Prepend(data, entry) ==
    [exists |-> TRUE, content |-> <<entry>> \o data]

\* data.append(entry); json.dump(data, f)
save_item_write(data, entry) ==
    [exists |-> TRUE, content |-> Append(data, entry)]

\* save_item run without interruption
save_item(file, item_name, drawer_number, notes, user, now) ==
    save_item_write(load_data(file),
                    Entry(item_name, drawer_number, notes, user, now))

\* data.pop() in place of data.pop(index): the last element goes
Pop_Last(data, index) ==
    LET n == Len(data)
    IN  IF n > 0
        THEN [raised |-> None, popped |-> data[n], data |-> SubSeq(data, 1, n - 1)]
        ELSE [raised |-> "IndexError", popped |-> None, data |-> data]

\* list.pop(index), index counted from 0; a negative index counts from the
\* end, an index outside -len .. len-1 raises IndexError
Pop(data, index) ==
    LET n == Len(data)
        k == IF index < 0 THEN n + index + 1 ELSE index + 1
    IN  IF k \in 1..n
        THEN [raised |-> None,
              popped |-> data[k],
              data |-> [j \in 1..(n - 1) |-> IF j < k THEN data[j] ELSE data[j + 1]]]
        ELSE [raised |-> "IndexError", popped |-> None, data |-> data]

\* the guard of delete_item without its lower bound
InRange_NoLowerBound(index, data) == index < Len(data)

\* the guard of delete_item, line 87
InRange(index, data) == 0 <= index /\ index < Len(data)

\* the part of delete_item after data = load_data(): the guard, the pop, the
\* dump; `file` is the file as it is when the dump happens
delete_item_write(file, data, index) ==
    IF InRange(index, data)
    THEN LET p == Pop(data, index)
         IN  IF p.raised = None
             THEN [file |-> [exists |-> TRUE, content |-> p.data],
                   raised |-> None, popped |-> <<p.popped>>]
             ELSE [file |-> file, raised |-> p.raised, popped |-> <<>>]
    ELSE [file |-> file, raised |-> None, popped |-> <<>>]

\* delete_item run without interruption
delete_item(file, index) == delete_item_write(file, load_data(file), index)

(***************************************************************************)
(* Inputs of the store specification.                                      *)
(***************************************************************************)
Usernames == {ADMIN_USER, "bob"}
DisplayNames == {"Bob"}
Roles == {"user", "admin"}
StoreItemNames == {<<"B">>, <<"a", "b">>}
StoreNotes == {<<"b">>}
\* the Drawer # selectbox offers range(1, 21); the model keeps its two ends
FirstDrawer == 1
LastDrawer == 20
Drawers == {FirstDrawer, LastDrawer}
Timestamps == {"t1"}
AppNotes == {<<"b">>}
AppDrawers == {FirstDrawer}

Sessions == 1..NumSessions

(***************************************************************************)
(* Initial state: no file written yet; every session has run the script    *)
(* once, which set logged_in to False (lines 225-226) and drew the login   *)
(* page.                                                                   *)
(***************************************************************************)
NoCall == [op |-> "none"]
NoLocal == [op |-> "none"]
NoLast == [op |-> "none"]

Init ==
    /\ userFile = AbsentUsers
    /\ dataFile = AbsentData
    /\ call = NoCall
    /\ session_state = [s \in Sessions |->
                          [logged_in |-> FALSE, username |-> None, role |-> None]]
    /\ pc = [s \in Sessions |-> "idle"]
    /\ local = [s \in Sessions |-> NoLocal]
    /\ view = [s \in Sessions |-> <<>>]
    /\ sel = [s \in Sessions |-> 0]
    /\ last = [s \in Sessions |-> NoLast]

(***************************************************************************)
(* SpecStore: the store functions, each call run to its end before the     *)
(* next. `call` records the last call: its arguments, what it returned     *)
(* and the file it works on as it was before; a load_data also records the  *)
(* save_item it follows.                                                   *)
(***************************************************************************)
CallLoadUsers ==
    LET r == load_users(userFile)
    IN  /\ userFile' = r.file
        /\ call' = [op |-> "load_users", ret |-> r.users, preUsers |-> userFile]
        /\ UNCHANGED <<dataFile, appVars>>

CallSaveUser ==
    \E username \in Usernames, name \in DisplayNames,
       password \in Passwords, role \in Roles :
        LET r == save_user(userFile, username, name, password, role)
        IN  /\ userFile' = r.file
            /\ call' = [op |-> "save_user", username |-> username,
                        name |-> name, password |-> password, role |-> role,
                        ret |-> r.ret, preUsers |-> userFile]
            /\ UNCHANGED <<dataFile, appVars>>

CallLoadData ==
    /\ call' = [op |-> "load_data", ret |-> load_data(dataFile),
                preData |-> dataFile,
                prev |-> IF call.op = "save_item" THEN call ELSE [op |-> call.op]]
    /\ UNCHANGED <<userFile, dataFile, appVars>>

CallSaveItem ==
    \E item_name \in StoreItemNames, drawer_number \in Drawers,
       notes \in StoreNotes, user \in Usernames, now \in Timestamps :
        /\ Len(load_data(dataFile)) < MaxItems
        /\ dataFile' = save_item(dataFile, item_name, drawer_number, notes, user, now)
        /\ call' = [op |-> "save_item", item_name |-> item_name,
                    drawer_number |-> drawer_number, notes |-> notes,
                    user |-> user, ret |-> None, preData |-> dataFile]
        /\ UNCHANGED <<userFile, appVars>>

CallDeleteItem ==
    \E index \in (-MaxIndex)..MaxIndex :
        LET r == delete_item(dataFile, index)
        IN  /\ dataFile' = r.file
            /\ call' = [op |-> "delete_item", index |-> index,
                        ret |-> None, raised |-> r.raised,
                        preData |-> dataFile]
            /\ UNCHANGED <<userFile, appVars>>

NextStore ==
    \/ CallLoadUsers
    \/ CallSaveUser
    \/ CallLoadData
    \/ CallSaveItem
    \/ CallDeleteItem

SpecStore == Init /\ [][NextStore]_vars

\* 0 <= i < n, the indexes of a list of n records
InRangeOf(i, n) == i \in 0..(n - 1)

(***************************************************************************)
(* Claims about the store functions, checked under SpecStore.              *)
(***************************************************************************)

\* C1: save_user with a username that is already a key of the store returns
\* (False, "Username already exists.") and leaves the stored mapping as it
\* was: no record is overwritten, none is added.
C1_DuplicateUserLeavesStore ==
    (/\ call.op = "save_user"
     /\ call.preUsers.exists
     /\ call.username \in DOMAIN call.preUsers.content)
    => /\ call.ret = <<FALSE, "Username already exists.">>
       /\ userFile = call.preUsers

\* a save_user of an existing "bob" with another password and another role
C1_Witness ==
    /\ call.op = "save_user"
    /\ call.username = "bob"
    /\ call.preUsers.exists
    /\ "bob" \in DOMAIN call.preUsers.content
    /\ call.preUsers.content["bob"].password # make_hashes(call.password)
    /\ call.preUsers.content["bob"].role # call.role

\* C2: delete_item(i) with 0 <= i < n leaves n-1 records: positions before
\* i keep their records, every later position holds the record that was one
\* further on.
C2_DeleteShiftsDown ==
    (call.op = "delete_item" /\ InRangeOf(call.index, Len(load_data(call.preData))))
    => LET L == load_data(call.preData)
           n == Len(L)
           i == call.index
           R == load_data(dataFile)
       IN  /\ dataFile.exists
           /\ Len(R) = n - 1
           /\ \A j \in 0..(i - 1) : R[j + 1] = L[j + 1]
           /\ \A j \in i..(n - 2) : R[j + 1] = L[j + 2]

\* the middle one of three different records was deleted
C2_Witness ==
    /\ call.op = "delete_item"
    /\ call.index = 1
    /\ Len(load_data(call.preData)) = 3
    /\ call.preData.content[1] # call.preData.content[2]
    /\ call.preData.content[2] # call.preData.content[3]
    /\ Len(load_data(dataFile)) = 2

\* C3: delete_item(i) with i < 0 or i >= n raises nothing and leaves the
\* inventory file as it was (absent when it was absent); a negative index
\* does not count from the end.
C3_OutOfRangeDeleteIsNoOp ==
    (call.op = "delete_item" /\ ~InRangeOf(call.index, Len(load_data(call.preData))))
    => /\ call.raised = None
       /\ dataFile = call.preData

\* delete_item(-1) was called on a list of two records
C3_Witness ==
    /\ call.op = "delete_item"
    /\ call.index = -1
    /\ Len(load_data(call.preData)) = 2

\* C4: load_data right after save_item returns the list as it was with one
\* record more at its end, which carries the item name, drawer number, notes
\* and user that were passed.
C4_AppendThenLoad ==
    (call.op = "load_data" /\ call.prev.op = "save_item")
    => LET L == load_data(call.prev.preData)
           R == call.ret
       IN  /\ Len(R) = Len(L) + 1
           /\ \A j \in 1..Len(L) : R[j] = L[j]
           /\ R[Len(R)].item = call.prev.item_name
           /\ R[Len(R)].drawer = call.prev.drawer_number
           /\ R[Len(R)].notes = call.prev.notes
           /\ R[Len(R)].added_by = call.prev.user

\* a load_data after a save_item onto a list of two, and one onto no file
C4_Witness ==
    /\ call.op = "load_data"
    /\ call.prev.op = "save_item"
    /\ Len(load_data(call.prev.preData)) = 2
    /\ call.ret[3] # call.ret[1]

(***************************************************************************)
(* The application. A session's interaction (a form submitted, a button    *)
(* pressed, a menu entry chosen) runs the script from its top; the runs of *)
(* different sessions interleave between their file reads and writes. A    *)
(* step is a run up to its next read or write of a file that another       *)
(* session may write; one read and one dump are each a step. An action     *)
(* takes the sets its form inputs are drawn from, so that each             *)
(* specification bounds them for its claims.                               *)
(***************************************************************************)

\* the sidebar menu with the Admin Panel for everyone
Menu_AlwaysAdmin(role) == {"Find Item", "Add Item", "View All", "Admin Panel"}

\* the sidebar menu, lines 123-127
Menu(role) ==
    {"Find Item", "Add Item", "View All"}
        \cup (IF role = "admin" THEN {"Admin Panel"} ELSE {})

\* the session is logged in (line 228), no run of it is under way, and the
\* radio offers the choice
CanChoose(s, choice) ==
    /\ pc[s] = "idle"
    /\ session_state[s].logged_in
    /\ choice \in Menu(session_state[s].role)

\* a page without the delete widgets is drawn
NoDeleteWidgets(s) ==
    /\ view' = [view EXCEPT ![s] = <<>>]
    /\ sel' = [sel EXCEPT ![s] = 0]

\* login_page that lets every known username in
login_page_NoPasswordCheck(state, users, username, password) ==
    IF username \in DOMAIN users
    THEN [state |-> [logged_in |-> TRUE, username |-> username,
                     role |-> users[username].role],
          shown |-> "Welcome back"]
    ELSE [state |-> state, shown |-> "User not found."]

\* the submit branch of login_page, lines 102-114, given the users loaded
login_page(state, users, username, password) ==
    IF username \in DOMAIN users
    THEN IF check_hashes(password, users[username].password)
         THEN [state |-> [logged_in |-> TRUE, username |-> username,
                          role |-> users[username].role],
               shown |-> "Welcome back"]
         ELSE [state |-> state, shown |-> "Incorrect password."]
    ELSE [state |-> state, shown |-> "User not found."]

\* what a finished login run leaves in `last`
LoginRecord(s, username, password, users, existed, file, shown) ==
    [op |-> "login", username |-> username, password |-> password,
     users |-> users, existed |-> existed, persisted |-> file,
     before |-> session_state[s], shown |-> shown]

\* "Login" submitted on the login page, up to load_users. With a user file
\* there the run reads it and ends (after a success st.rerun() draws the
\* Find Item page with an empty search box); with none it goes on to write
\* the default one.
Login(s, usernames) ==
    /\ pc[s] = "idle"
    /\ ~session_state[s].logged_in
    /\ \E username \in usernames, password \in Passwords :
        IF userFile.exists
        THEN LET users == userFile.content
                 r == login_page(session_state[s], users, username, password)
             IN  /\ session_state' = [session_state EXCEPT ![s] = r.state]
                 /\ last' = [last EXCEPT ![s] =
                               LoginRecord(s, username, password, users,
                                           TRUE, userFile, r.shown)]
                 /\ UNCHANGED <<pc, local>>
        ELSE /\ pc' = [pc EXCEPT ![s] = "load_users"]
             /\ local' = [local EXCEPT ![s] =
                            [op |-> "login", username |-> username,
                             password |-> password]]
             /\ last' = [last EXCEPT ![s] = NoLast]
             /\ UNCHANGED session_state
    /\ NoDeleteWidgets(s)
    /\ UNCHANGED <<userFile, dataFile, call>>

\* load_users having found no user file, lines 30-40: the default users are
\* dumped over whatever the file holds by now and returned; then the rest of
\* the login run
LoginBootstrap(s) ==
    /\ pc[s] = "load_users"
    /\ LET l == load_users(AbsentUsers)
           r == login_page(session_state[s], l.users,
                           local[s].username, local[s].password)
       IN  /\ userFile' = l.file
           /\ session_state' = [session_state EXCEPT ![s] = r.state]
           /\ last' = [last EXCEPT ![s] =
                         LoginRecord(s, local[s].username, local[s].password,
                                     l.users, FALSE, l.file, r.shown)]
    /\ pc' = [pc EXCEPT ![s] = "idle"]
    /\ local' = [local EXCEPT ![s] = NoLocal]
    /\ UNCHANGED <<dataFile, call, view, sel>>

\* "Logout" pressed, lines 119-121: only logged_in is reset
Logout(s) ==
    /\ pc[s] = "idle"
    /\ session_state[s].logged_in
    /\ session_state' = [session_state EXCEPT ![s].logged_in = FALSE]
    /\ last' = [last EXCEPT ![s] = [op |-> "logout"]]
    /\ NoDeleteWidgets(s)
    /\ UNCHANGED <<userFile, dataFile, call, pc, local>>

\* the filter of line 139
Matches(d, search_term) ==
    \/ StrIn(Lower(search_term), Lower(d.item))
    \/ StrIn(Lower(search_term), Lower(d.notes))

\* the results without the `if search_term` of line 137
find_results_NoGuard(data, search_term) ==
    SelectSeq(data, LAMBDA d : Matches(d, search_term))

\* the results the Find Item page lists, lines 137-152: none for an empty
\* search box (the filter is not run)
find_results(data, search_term) ==
    IF search_term # <<>>
    THEN SelectSeq(data, LAMBDA d : Matches(d, search_term))
    ELSE <<>>

\* the Find Item page run with a search term in its box
FindItem(s, terms) ==
    /\ CanChoose(s, "Find Item")
    /\ \E search_term \in terms :
        LET data == load_data(dataFile)
            results == find_results(data, search_term)
        IN  last' = [last EXCEPT ![s] =
                       [op |-> "find", search_term |-> search_term,
                        data |-> data, results |-> results,
                        shown |-> IF search_term = <<>>
                                  THEN "Enter a keyword above to search."
                                  ELSE IF results # <<>>
                                       THEN "Found"
                                       ELSE "No items found."]]
    /\ NoDeleteWidgets(s)
    /\ UNCHANGED <<userFile, dataFile, call, session_state, pc, local>>

\* "Save Item" submitted, lines 167-172, up to the read of save_item; the
\* inventory is kept to `cap` records
AddItem(s, names, cap) ==
    /\ CanChoose(s, "Add Item")
    /\ Len(load_data(dataFile)) < cap
    /\ \E item_name \in names, drawer_num \in AppDrawers,
          notes \in AppNotes, now \in Timestamps :
        IF item_name # <<>>
        THEN /\ pc' = [pc EXCEPT ![s] = "save_item"]
             /\ local' = [local EXCEPT ![s] =
                            [op |-> "save_item",
                             data |-> load_data(dataFile),
                             entry |-> Entry(item_name, drawer_num, notes,
                                             session_state[s].username, now)]]
             /\ last' = [last EXCEPT ![s] = NoLast]
        ELSE /\ last' = [last EXCEPT ![s] =
                           [op |-> "add", shown |-> "Please enter an item name."]]
             /\ UNCHANGED <<pc, local>>
    /\ NoDeleteWidgets(s)
    /\ UNCHANGED <<userFile, dataFile, call, session_state>>

\* save_item reading the file again when it dumps
WriteBase_Fresh(s) == load_data(dataFile)

\* the list save_item appends to: its local `data`, read at line 72
WriteBase(s) == local[s].data

\* save_item's dump, lines 80-82, and the success message; `clobbered`
\* notes that the file was no longer the list this call had read
SaveItemWrite(s) ==
    /\ pc[s] = "save_item"
    /\ dataFile' = save_item_write(WriteBase(s), local[s].entry)
    /\ pc' = [pc EXCEPT ![s] = "idle"]
    /\ last' = [last EXCEPT ![s] =
                  [op |-> "save_item", entry |-> local[s].entry,
                   clobbered |-> load_data(dataFile) # local[s].data,
                   shown |-> "Saved"]]
    /\ local' = [local EXCEPT ![s] = NoLocal]
    /\ UNCHANGED <<userFile, call, session_state, view, sel>>

\* the options of the "Select item to delete" box, line 187
Options(data) ==
    [i \in 1..Len(data) |->
        [index |-> i - 1, item |-> data[i].item, drawer |-> data[i].drawer]]

\* int(selected_to_delete.split(":")[0]), line 191
ParseIndex(option) == option.index

\* The index the selectbox of line 188 returns in a run, given the options
\* and the index it had when the page was last drawn. Streamlit identifies a
\* widget without a key by its parameters: with the same options the box
\* keeps its choice, with other options it is a new box at its default, the
\* first option.
SelectedIndex(oldOptions, oldIndex, newOptions) ==
    IF newOptions = oldOptions THEN oldIndex ELSE 0

\* the View All page drawn from `data`, lines 177-196
DrawViewAll(s, data, chosen) ==
    /\ view' = [view EXCEPT ![s] = data]
    /\ sel' = [sel EXCEPT ![s] =
                 SelectedIndex(Options(view[s]), chosen, Options(data))]

\* View All run: chosen in the menu, drawn again, or run because another
\* option of the box was chosen; `i` is the index the box holds
ViewAll(s) ==
    /\ CanChoose(s, "View All")
    /\ \E i \in {sel[s]} \cup 0..(Len(view[s]) - 1) :
        DrawViewAll(s, load_data(dataFile), i)
    /\ last' = [last EXCEPT ![s] = [op |-> "view"]]
    /\ UNCHANGED <<userFile, dataFile, call, session_state, pc, local>>

\* "Delete Selected Item" pressed on the page as drawn: the script runs
\* again, reads the list (line 177), builds the options from it, and with a
\* non-empty list reaches the button and calls delete_item. `shown` is the
\* record the box showed when the button was pressed, `same` notes that the
\* list read now is the list that was drawn.
PressDelete(s) ==
    /\ CanChoose(s, "View All")
    /\ view[s] # <<>>
    /\ LET data == load_data(dataFile)
           options == Options(data)
           chosen == SelectedIndex(Options(view[s]), sel[s], options)
       IN  IF data # <<>>
           THEN /\ pc' = [pc EXCEPT ![s] = "delete_item"]
                /\ local' = [local EXCEPT ![s] =
                               [op |-> "delete_item",
                                index |-> ParseIndex(options[chosen + 1]),
                                shown |-> view[s][sel[s] + 1],
                                same |-> data = view[s]]]
                /\ view' = [view EXCEPT ![s] = data]
                /\ sel' = [sel EXCEPT ![s] = chosen]
                /\ last' = [last EXCEPT ![s] = NoLast]
           ELSE /\ NoDeleteWidgets(s)
                /\ last' = [last EXCEPT ![s] = [op |-> "view"]]
                /\ UNCHANGED <<pc, local>>
    /\ UNCHANGED <<userFile, dataFile, call, session_state>>

\* delete_item: the read, line 86
DeleteItemRead(s) ==
    /\ pc[s] = "delete_item"
    /\ pc' = [pc EXCEPT ![s] = "delete_item_write"]
    /\ local' = [local EXCEPT ![s] =
                   [op |-> "delete_item", index |-> local[s].index,
                    shown |-> local[s].shown,
                    same |-> local[s].same /\ load_data(dataFile) = view[s],
                    data |-> load_data(dataFile)]]
    /\ UNCHANGED <<userFile, dataFile, call, session_state, view, sel, last>>

\* delete_item: the guard, the pop and the dump, lines 87-90; then
\* "Item deleted!" and st.rerun(), lines 193-194. `undisturbed` notes that
\* both reads of this run returned the list that was drawn.
DeleteItemWrite(s) ==
    /\ pc[s] = "delete_item_write"
    /\ LET r == delete_item_write(dataFile, local[s].data, local[s].index)
       IN  /\ dataFile' = r.file
           /\ last' = [last EXCEPT ![s] =
                         [op |-> "delete_item", index |-> local[s].index,
                          shown |-> local[s].shown,
                          undisturbed |-> local[s].same,
                          popped |-> r.popped, raised |-> r.raised]]
    /\ pc' = [pc EXCEPT ![s] = "rerun"]
    /\ local' = [local EXCEPT ![s] = NoLocal]
    /\ UNCHANGED <<userFile, call, session_state, view, sel>>

\* the run st.rerun() starts: View All is drawn from the file
Rerun(s) ==
    /\ pc[s] = "rerun"
    /\ DrawViewAll(s, load_data(dataFile), sel[s])
    /\ pc' = [pc EXCEPT ![s] = "idle"]
    /\ UNCHANGED <<userFile, dataFile, call, session_state, local, last>>

\* "Create User" submitted on the Admin Panel, lines 210-218, up to the
\* users = load_users() of save_user (which finds the user file: a session
\* is logged in only after a login run that read or wrote it)
CreateUser(s, newUsers) ==
    /\ CanChoose(s, "Admin Panel")
    /\ \E new_user \in newUsers, new_name \in DisplayNames,
          new_pass \in {"pw", ""}, new_role \in Roles :
        IF new_user # "" /\ new_pass # ""
        THEN /\ pc' = [pc EXCEPT ![s] = "save_user"]
             /\ local' = [local EXCEPT ![s] =
                            [op |-> "save_user",
                             users |-> load_users(userFile).users,
                             username |-> new_user, name |-> new_name,
                             password |-> new_pass, role |-> new_role]]
             /\ userFile' = load_users(userFile).file
             /\ last' = [last EXCEPT ![s] = NoLast]
        ELSE /\ last' = [last EXCEPT ![s] =
                           [op |-> "create_user",
                            shown |-> "Username and Password are required."]]
             /\ UNCHANGED <<userFile, pc, local>>
    /\ NoDeleteWidgets(s)
    /\ UNCHANGED <<dataFile, call, session_state>>

\* save_user: the check, the new record and the dump, lines 47-57
SaveUserWrite(s) ==
    /\ pc[s] = "save_user"
    /\ LET r == save_user_write(userFile, local[s].users, local[s].username,
                                local[s].name, local[s].password, local[s].role)
       IN  /\ userFile' = r.file
           /\ last' = [last EXCEPT ![s] =
                         [op |-> "create_user", username |-> local[s].username,
                          shown |-> r.ret[2]]]
    /\ pc' = [pc EXCEPT ![s] = "idle"]
    /\ local' = [local EXCEPT ![s] = NoLocal]
    /\ UNCHANGED <<dataFile, call, session_state, view, sel>>

(***************************************************************************)
(* Spec: the application with every account the Admin Panel can create and *)
(* an inventory of at most one record.                                     *)
(***************************************************************************)
OneItemName == {<<"B">>, <<>>}
OneTerm == {<<"b">>}

Next ==
    \E s \in Sessions :
        \/ Login(s, Usernames)
        \/ LoginBootstrap(s)
        \/ Logout(s)
        \/ FindItem(s, OneTerm)
        \/ AddItem(s, OneItemName, MaxAuthItems)
        \/ SaveItemWrite(s)
        \/ ViewAll(s)
        \/ PressDelete(s)
        \/ DeleteItemRead(s)
        \/ DeleteItemWrite(s)
        \/ Rerun(s)
        \/ CreateUser(s, Usernames \cup {""})
        \/ SaveUserWrite(s)

Spec == Init /\ [][Next]_vars

(***************************************************************************)
(* Claims about logging in and creating users, checked under Spec.         *)
(***************************************************************************)

\* SHA-256 of the seed password "admin123"
SeedDigest == "240be518fabd2724ddb6f04eeb1da5967448d7e831c08c8fa822809f74c720a9"

\* C5: the load_users that finds no user file writes and returns a mapping
\* of one record, the administrator with role "admin" and the digest of the
\* seed password; every login with the administrator's name and the seed
\* password leaves the session logged in with role "admin".
C5_BootstrapAdminLogin ==
    \A s \in Sessions :
        last[s].op = "login" =>
            /\ ~last[s].existed =>
                  /\ DOMAIN last[s].users = {"admin"}
                  /\ last[s].users["admin"].role = "admin"
                  /\ last[s].users["admin"].password = SeedDigest
                  /\ last[s].persisted = [exists |-> TRUE, content |-> last[s].users]
            /\ (last[s].username = "admin" /\ last[s].password = "admin123") =>
                  session_state[s] =
                      [logged_in |-> TRUE, username |-> "admin", role |-> "admin"]

\* the first login of all, with the seed credentials, found no user file
C5_Witness ==
    \E s \in Sessions :
        /\ last[s].op = "login"
        /\ ~last[s].existed
        /\ last[s].username = "admin"
        /\ last[s].password = "admin123"
        /\ session_state[s].logged_in
        /\ userFile.exists

\* C6: a login attempt is made from a logged-out session; an unknown
\* username is answered "User not found.", a known one with another digest
\* "Incorrect password.", and both leave the session state as it was; the
\* session is logged in only on a match, as the submitted username with the
\* role stored for it.
C6_LoginOutcomes ==
    \A s \in Sessions :
        last[s].op = "login" =>
            LET a == last[s]
                known == a.username \in DOMAIN a.users
                match == known /\ a.users[a.username].password = make_hashes(a.password)
            IN  /\ ~a.before.logged_in
                /\ ~known => a.shown = "User not found." /\ session_state[s] = a.before
                /\ (known /\ ~match) =>
                       a.shown = "Incorrect password." /\ session_state[s] = a.before
                /\ match =>
                       session_state[s] = [logged_in |-> TRUE,
                                           username |-> a.username,
                                           role |-> a.users[a.username].role]
                /\ session_state[s].logged_in => match

\* a session that had been the administrator's fails to log in as bob
C6_Witness ==
    \E s \in Sessions :
        /\ last[s].op = "login"
        /\ last[s].username = "bob"
        /\ last[s].shown = "Incorrect password."
        /\ last[s].before.username = "admin"
        /\ last[s].before.role = "admin"
        /\ ~session_state[s].logged_in

\* C9: a session inside save_user is logged in with role "admin", and a
\* record other than the administrator's enters the user file, or changes
\* in it, only by the step of such a session; the administrator's record is
\* always the default one.
C9_OnlyAdminsAddUsers ==
    /\ [](\A s \in Sessions :
            pc[s] = "save_user" =>
                session_state[s].logged_in /\ session_state[s].role = "admin")
    /\ [][\A u \in DOMAIN userFile'.content :
            (u \notin DOMAIN userFile.content
                \/ userFile'.content[u] # userFile.content[u]) =>
                IF u = "admin"
                THEN userFile'.content[u].role = "admin"
                     /\ userFile'.content[u].password = SeedDigest
                ELSE \E s \in Sessions :
                        /\ pc[s] = "save_user"
                        /\ pc'[s] = "idle"
                        /\ local[s].username = u
                        /\ session_state[s].logged_in
                        /\ session_state[s].role = "admin"]_vars

\* bob was created with role "user", and a session that had been the
\* administrator's is now logged in as bob
C9_Witness ==
    /\ "bob" \in DOMAIN userFile.content
    /\ \E s \in Sessions :
        /\ last[s].op = "login"
        /\ last[s].before.role = "admin"
        /\ session_state[s] = [logged_in |-> TRUE, username |-> "bob", role |-> "user"]

(***************************************************************************)
(* SpecRace: the application with the administrator account alone, open in *)
(* every session, and an inventory of up to MaxAppItems records.           *)
(***************************************************************************)
AppItemNames == {<<"B">>, <<"a", "b">>, <<>>}
AppTerms == {<<>>, <<"b">>}

NextRace ==
    \E s \in Sessions :
        \/ Login(s, {ADMIN_USER})
        \/ LoginBootstrap(s)
        \/ Logout(s)
        \/ FindItem(s, AppTerms)
        \/ AddItem(s, AppItemNames, MaxAppItems)
        \/ SaveItemWrite(s)
        \/ ViewAll(s)
        \/ PressDelete(s)
        \/ DeleteItemRead(s)
        \/ DeleteItemWrite(s)
        \/ Rerun(s)
        \/ CreateUser(s, {ADMIN_USER, ""})
        \/ SaveUserWrite(s)

SpecRace == Init /\ [][NextRace]_vars

(***************************************************************************)
(* Claims about sessions racing on the inventory, checked under SpecRace.  *)
(***************************************************************************)

\* C8: the dump of save_item stores the list the call read with its entry
\* appended, whatever the file holds by then: an append that another session
\* completed between the read and the dump is dropped, and neither call
\* fails.
C8_DumpKeepsOnlyWhatWasRead ==
    [][\A s \in Sessions :
         (pc[s] = "save_item" /\ pc'[s] = "idle") =>
             load_data(dataFile') = Append(local[s].data, local[s].entry)]_vars

\* two sessions read the empty inventory, both finished save_item, and the
\* file holds one record: the entry of the session that wrote last
C8_Witness ==
    \E s, t \in Sessions :
        /\ s # t
        /\ pc[s] = "idle" /\ pc[t] = "idle"
        /\ last[s].op = "save_item" /\ last[t].op = "save_item"
        /\ last[s].entry # last[t].entry
        /\ last[t].clobbered
        /\ load_data(dataFile) = <<last[t].entry>>

\* C10: the record "Delete Selected Item" removes is the record the box
\* showed when the button was pressed.
C10_RemovedIsShown ==
    \A s \in Sessions :
        (last[s].op = "delete_item" /\ last[s].popped # <<>>) =>
            last[s].popped = <<last[s].shown>>

\* when both reads of the deleting run return the list that was drawn, the
\* record removed is the record shown
DeleteRemovesShownWhenUndisturbed ==
    \A s \in Sessions :
        (last[s].op = "delete_item" /\ last[s].undisturbed) =>
            last[s].popped = <<last[s].shown>>

(***************************************************************************)
(* SpecFind: the Find Item page over every inventory list of up to         *)
(* MaxFindLen records whose item names are strings of up to MaxStrLen and   *)
(* whose notes are strings of up to MaxNotesLen characters, and every      *)
(* search term of up to MaxStrLen characters. Session 1 is logged in as    *)
(* the administrator and has the View All page open.                       *)
(***************************************************************************)
StrUpTo(n) == UNION {[1..k -> Chars] : k \in 0..n}

Str == StrUpTo(MaxStrLen)

FindItems ==
    {Entry(n, FirstDrawer, t, ADMIN_USER, "t1") :
        n \in Str, t \in StrUpTo(MaxNotesLen)}

InitFind ==
    /\ userFile = load_users(AbsentUsers).file
    /\ dataFile \in {[exists |-> TRUE, content |-> L] :
                        L \in UNION {[1..k -> FindItems] : k \in 0..MaxFindLen}}
    /\ call = NoCall
    /\ session_state = [s \in Sessions |->
                          IF s = 1
                          THEN [logged_in |-> TRUE, username |-> ADMIN_USER,
                                role |-> "admin"]
                          ELSE [logged_in |-> FALSE, username |-> None,
                                role |-> None]]
    /\ pc = [s \in Sessions |-> "idle"]
    /\ local = [s \in Sessions |-> NoLocal]
    /\ view = [s \in Sessions |-> IF s = 1 THEN dataFile.content ELSE <<>>]
    /\ sel = [s \in Sessions |-> 0]
    /\ last = [s \in Sessions |-> IF s = 1 THEN [op |-> "view"] ELSE NoLast]

NextFind == \E s \in Sessions : FindItem(s, Str)

SpecFind == InitFind /\ [][NextFind]_vars

\* needle is a run of consecutive characters of hay
Contains(hay, needle) ==
    \E i \in 1..(Len(hay) + 1) : \E j \in (i - 1)..Len(hay) :
        SubSeq(hay, i, j) = needle

\* the positions of data whose item name or notes contain the term, case
\* folded on both sides
Hits(data, term) ==
    {i \in 1..Len(data) :
        \/ Contains(Lower(data[i].item), Lower(term))
        \/ Contains(Lower(data[i].notes), Lower(term))}

\* C7: the Find Item result holds, in the order of the inventory, exactly the
\* items whose lower-cased name or lower-cased notes contain the lower-cased
\* term; for the empty term it holds nothing.
C7_FindIsTheMatchingSubsequence ==
    \A s \in Sessions :
        last[s].op = "find" =>
            LET data == last[s].data
                term == last[s].search_term
                results == last[s].results
                hits == Hits(data, term)
            IN  IF term = <<>>
                THEN results = <<>>
                ELSE /\ Len(results) = Cardinality(hits)
                     /\ \A i \in hits :
                          results[Cardinality({j \in hits : j <= i})] = data[i]

\* the term "b" finds the second of two records by its notes "B" and not the
\* first, whose name and notes lack the letter
C7_Witness ==
    \E s \in Sessions :
        /\ last[s].op = "find"
        /\ last[s].search_term = <<"b">>
        /\ Len(last[s].data) = 2
        /\ last[s].data[1].item = <<"a">>
        /\ last[s].data[1].notes = <<>>
        /\ last[s].data[2].item = <<"a", "a">>
        /\ last[s].data[2].notes = <<"B">>
        /\ last[s].results = <<last[s].data[2]>>

====
